---------------------------- MODULE Spec2Model ----------------------------
(***************************************************************************)
(* A model of gorose's Session (src/session.go): transaction handling      *)
(* (Begin / Commit / Rollback / Transaction), the write path (Execute),    *)
(* the read path (Query and the row scanners) and destination binding      *)
(* (Bind / parseTable / parseFields).                                      *)
(*                                                                         *)
(* The database (database/sql) is the environment: every call into it      *)
(* (Begin, Prepare, Exec, Query, Commit, Rollback, LastInsertId,           *)
(* RowsAffected) has an outcome chosen by the environment, and every such  *)
(* call is recorded in `trace` for the call that is running, the way a     *)
(* recording driver would.  A nil-pointer dereference is a Go run-time     *)
(* panic: the call ends without returning (ret.status = "panicked") and    *)
(* the session keeps the state it had at the panic, deferred calls run.    *)
(***************************************************************************)
EXTENDS Integers, Sequences, FiniteSets, TLC

VARIABLES
    tx,              \* Session.tx: 0 is nil, h > 0 is the handle of the h-th transaction begun
    lastInsertId,    \* Session.lastInsertId
    sqlLogs,         \* Session.sqlLogs
    lastSql,         \* Session.lastSql
    enableQueryLog,  \* what IEngin.IfEnableQueryLog() answers
    nextTx,          \* the handle masterDB.Begin() hands out next
    openStmts,       \* prepared statements not yet closed
    openRows,        \* row cursors not yet closed
    pc,              \* "idle", or "closers" while Transaction runs its loop
    nclosers,        \* Transaction: len(closers)
    idx,             \* Transaction: index of the next closer to invoke (1-based)
    trace,           \* the calls made to the database, and the closers invoked, by the running (or last) call
    closerTrace,     \* Transaction: the calls the closer invoked last made
    ret,             \* how the last call ended: [op, status, err, n]
    lastStmt,        \* history: the statement text the last Execute or Query was passed
    inTx,            \* history: a Begin has succeeded and no Commit/Rollback has been called since
    beganLast,       \* history: the last call of Begin, Commit or Rollback was a Begin that succeeded
    BindOrigin,      \* Binder.BindOrigin: the destination passed to Bind
    BindType,        \* Binder.BindType
    BindName,        \* Binder.BindName
    BindFields,      \* Binder.BindFields
    BindLimit,       \* Binder.BindLimit
    BindResult,      \* Binder.BindResult: the reflect.Value rows are scanned into
    BindResultSlice, \* Binder.BindResultSlice: the reflect.Value of the slice rows are appended to
    dstRecord,       \* the caller's record (a User)
    tmplRecord,      \* the record reflect.New allocated for a bound slice of records
    dstRecords,      \* the caller's slice of records ([]Order)
    dstMaps,         \* the caller's slice of maps: the maps it holds, by identity
    maps,            \* the contents of every map: 0 is the caller's map, h > 0 the h-th map reflect.MakeMap allocated
    nextMap,         \* the map reflect.MakeMap allocates next
    scanned          \* history: the scanner the last Query ran, the cursor it was given, the rows
                     \* it advanced to (nexts) and the rows it stored (rows)

sessionVars ==
    <<tx, lastInsertId, sqlLogs, lastSql, enableQueryLog, nextTx, openStmts, openRows,
      pc, nclosers, idx, trace, closerTrace, ret, lastStmt, inTx, beganLast>>

binderVars ==
    <<BindOrigin, BindType, BindName, BindFields, BindLimit, BindResult, BindResultSlice,
      tmplRecord, nextMap>>

heapVars == <<dstRecord, dstRecords, dstMaps, maps, scanned>>

vars == <<sessionVars, binderVars, heapVars>>

-----------------------------------------------------------------------------
(* Bounds of the model. *)

\* transactions the database hands out in one behaviour
MaxTx == 3
\* closers passed to one Transaction call
MaxClosers == 4
\* entries the statement log holds before logged statements stop being issued
MaxLog == 2
\* maps reflect.MakeMap allocates in one behaviour
MaxTemplates == 2
\* rows one statement returns
MaxRows == 2
\* elements a destination slice grows to
MaxElems == 3

-----------------------------------------------------------------------------
(* Connections, calls and errors. *)

Master == [kind |-> "master", id |-> 0]
Slave == [kind |-> "slave", id |-> 0]
TxConn(h) == [kind |-> "tx", id |-> h]

\* one recorded call: what was called, by whom ("session": the method the
\* caller invoked, "txn": Transaction itself, "closer": a closer's body), on
\* which connection, the error it returned and, for LastInsertId and
\* RowsAffected, the number it returned with it
CallVal(name, who, on, err, val) ==
    [call |-> name, by |-> who, on |-> on, err |-> err, val |-> val]
Call(name, who, on, err) == CallVal(name, who, on, err, 0)

NoErr == "nil"
NilDereference == "invalid memory address or nil pointer dereference"
ErrUsage == "Execute does not allow select operations, please use Query"

Returned(op, err, n) == [op |-> op, status |-> "returned", err |-> err, n |-> n]
Panicked(op) == [op |-> op, status |-> "panicked", err |-> NoErr, n |-> 0]
Running(op) == [op |-> op, status |-> "running", err |-> NoErr, n |-> 0]

-----------------------------------------------------------------------------
(* Statement texts are sequences of one-character strings. *)

UpperChars == <<"A","B","C","D","E","F","G","H","I","J","K","L","M",
                "N","O","P","Q","R","S","T","U","V","W","X","Y","Z">>
LowerChars == <<"a","b","c","d","e","f","g","h","i","j","k","l","m",
                "n","o","p","q","r","s","t","u","v","w","x","y","z">>

\* strings.ToLower on one ASCII character
ToLowerChar(c) ==
    IF \E i \in 1..Len(UpperChars) : UpperChars[i] = c
    THEN LowerChars[CHOOSE i \in 1..Len(UpperChars) : UpperChars[i] = c]
    ELSE c

\* a comparison that does not fold the letter case
NoCaseFolding(s) == s

\* strings.ToLower
ToLower(s) == [i \in 1..Len(s) |-> ToLowerChar(s[i])]

ToUpperChar(c) ==
    IF \E i \in 1..Len(LowerChars) : LowerChars[i] = c
    THEN UpperChars[CHOOSE i \in 1..Len(LowerChars) : LowerChars[i] = c]
    ELSE c

DigitChars == <<"0","1","2","3","4","5","6","7","8","9">>

\* fmt.Sprintf for formats whose only verb is %d and integer arguments 0..9:
\* each %d is replaced by the next argument (or by fmt's %!d(MISSING) when
\* the arguments have run out), a % that ends the format becomes
\* %!(NOVERB), and arguments left over are reported in a trailing
\* %!(EXTRA ...).  The three diagnostics are kept as single elements.
RECURSIVE SprintfFrom(_, _, _, _)
SprintfFrom(format, args, i, a) ==
    IF i > Len(format)
    THEN IF a <= Len(args) THEN <<"%!(EXTRA)">> ELSE <<>>
    ELSE IF format[i] # "%"
    THEN <<format[i]>> \o SprintfFrom(format, args, i + 1, a)
    ELSE IF i = Len(format)
    THEN <<"%!(NOVERB)">>  \o SprintfFrom(format, args, i + 1, a)
    ELSE IF format[i + 1] = "d"
    THEN IF a <= Len(args)
         THEN <<DigitChars[args[a] + 1]>> \o SprintfFrom(format, args, i + 2, a + 1)
         ELSE <<"%!d(MISSING)">> \o SprintfFrom(format, args, i + 2, a)
    ELSE <<"%!", format[i + 1], "(BADVERB)">> \o SprintfFrom(format, args, i + 2, a)

Sprintf(format, args) == SprintfFrom(format, args, 1, 1)

\* sqlstring[0:6]: defined only when the text has six characters
Prefix6(s) == SubSeq(s, 1, 6)

SELECT == <<"s","e","l","e","c","t">>
INSERT == <<"i","n","s","e","r","t">>
UPDATE == <<"u","p","d","a","t","e">>
DELETE == <<"d","e","l","e","t","e">>

\* every letter-case variant of a word
RECURSIVE CaseVariants(_)
CaseVariants(w) ==
    IF w = <<>> THEN {<<>>}
    ELSE {<<c>> \o v : c \in {Head(w), ToUpperChar(Head(w))}, v \in CaseVariants(Tail(w))}

-----------------------------------------------------------------------------
(* The session as a value.  The methods below are functions from the       *)
(* session (and the environment's answers) to the session after the call:  *)
(* `calls` collects the database calls the method made, `err` and `n` are  *)
(* what it returns, `panicked` says that it did not return.                *)

Cur ==
    [tx |-> tx, nextTx |-> nextTx, lastSql |-> lastSql, sqlLogs |-> sqlLogs,
     lastInsertId |-> lastInsertId, lastStmt |-> lastStmt,
     inTx |-> inTx, beganLast |-> beganLast,
     calls |-> <<>>, err |-> NoErr, n |-> 0, panicked |-> FALSE]

\* a method starts from the session as the previous one left it
Enter(s) == [s EXCEPT !.err = NoErr, !.n = 0]

Did(s, c) == [s EXCEPT !.calls = Append(@, c)]

\* Session.Begin: s.tx, err = s.masterDB.Begin().  A failed Begin returns a
\* nil handle, which is stored too.
Begin(s0, who, ok) ==
    LET s == Enter(s0) IN
    IF ok
    THEN [Did(s, Call("Begin", who, Master, NoErr))
            EXCEPT !.tx = s.nextTx, !.nextTx = s.nextTx + 1,
                   !.inTx = TRUE, !.beganLast = TRUE]
    ELSE [Did(s, Call("Begin", who, Master, "ErrBegin"))
            EXCEPT !.tx = 0, !.err = "ErrBegin", !.beganLast = FALSE]

\* Session.Rollback: err = s.tx.Rollback(); s.tx = nil.  With s.tx nil the
\* call is made on a nil *sql.Tx, TxConn(0), which it dereferences.
Rollback(s0, who, e) ==
    LET s == [Enter(s0) EXCEPT !.inTx = FALSE, !.beganLast = FALSE] IN
    IF s.tx = 0
    THEN [Did(s, Call("Rollback", who, TxConn(0), NilDereference)) EXCEPT !.panicked = TRUE]
    ELSE [Did(s, Call("Rollback", who, TxConn(s.tx), e)) EXCEPT !.tx = 0, !.err = e]

CommitKeepsTxOnError(s0, who, e) ==
    LET s == [Enter(s0) EXCEPT !.inTx = FALSE, !.beganLast = FALSE] IN
    IF s.tx = 0
    THEN [Did(s, Call("Commit", who, TxConn(0), NilDereference)) EXCEPT !.panicked = TRUE]
    ELSE [Did(s, Call("Commit", who, TxConn(s.tx), e))
            EXCEPT !.tx = IF e = NoErr THEN 0 ELSE @, !.err = e]

\* Session.Commit: err = s.tx.Commit(); s.tx = nil
Commit(s0, who, e) ==
    LET s == [Enter(s0) EXCEPT !.inTx = FALSE, !.beganLast = FALSE] IN
    IF s.tx = 0
    THEN [Did(s, Call("Commit", who, TxConn(0), NilDereference)) EXCEPT !.panicked = TRUE]
    ELSE [Did(s, Call("Commit", who, TxConn(s.tx), e)) EXCEPT !.tx = 0, !.err = e]

\* a log that keeps the last statement only
RecordKeepsLastOnly(s, text) ==
    [s EXCEPT !.lastSql = text,
              !.sqlLogs = IF enableQueryLog THEN <<text>> ELSE @]

\* the statement is recorded, and logged when query logging is on
Record(s, text) ==
    [s EXCEPT !.lastSql = text,
              !.sqlLogs = IF enableQueryLog THEN Append(@, text) ELSE @]

\* the connection Execute prepares on:
\* if s.tx == nil { s.masterDB.Prepare } else { s.tx.Prepare }
WriteConnMaster(s) == Master

WriteConn(s) == IF s.tx = 0 THEN Master ELSE TxConn(s.tx)

\* after a successful Exec:
\* if operType == "insert" { id, err := result.LastInsertId(); if err == nil { s.lastInsertId = id } }
CaptureIdAlways(s, who, conn, operType, drv) ==
    [Did(s, CallVal("LastInsertId", who, conn, drv.lidErr, drv.lid))
       EXCEPT !.lastInsertId = IF drv.lidErr = NoErr THEN drv.lid ELSE @]

CaptureId(s, who, conn, operType, drv) ==
    IF operType = INSERT
    THEN [Did(s, CallVal("LastInsertId", who, conn, drv.lidErr, drv.lid))
            EXCEPT !.lastInsertId = IF drv.lidErr = NoErr THEN drv.lid ELSE @]
    ELSE s

\* Session.Execute.  drv holds the driver's answers: prepare and exec are
\* the errors of Prepare and Exec, (lid, lidErr) is what
\* result.LastInsertId() returns and (n, raErr) what result.RowsAffected()
\* returns.
Execute(s0, who, sqlstring, args, drv) ==
    LET s == [Record(Enter(s0), Sprintf(sqlstring, args)) EXCEPT !.lastStmt = sqlstring]
        conn == WriteConn(s)
    IN
    IF Len(sqlstring) < 6
    THEN [s EXCEPT !.panicked = TRUE]
    ELSE
    LET operType == ToLower(Prefix6(sqlstring)) IN
    IF operType = SELECT
    THEN [s EXCEPT !.n = 0, !.err = ErrUsage]
    ELSE IF drv.prepare # NoErr
    THEN [Did(s, Call("Prepare", who, conn, drv.prepare)) EXCEPT !.n = 0, !.err = drv.prepare]
    ELSE
    LET prepared == Did(s, Call("Prepare", who, conn, NoErr)) IN
    IF drv.exec # NoErr
    THEN [Did(Did(prepared, Call("Exec", who, conn, drv.exec)),
              Call("StmtClose", who, conn, NoErr))
            EXCEPT !.n = 0, !.err = drv.exec]
    ELSE
    LET executed == Did(prepared, Call("Exec", who, conn, NoErr))
        ided == CaptureId(executed, who, conn, operType, drv)
    IN [Did(Did(ided, CallVal("RowsAffected", who, conn, drv.raErr, drv.n)),
            Call("StmtClose", who, conn, NoErr))
          EXCEPT !.n = drv.n, !.err = drv.raErr]

-----------------------------------------------------------------------------
(* Destinations, values and the binder. *)

\* a destination as reflection sees it: its kind (after reflect.Indirect),
\* for a slice the kind of its elements, and the name of its record type
Dest(kind, elem, type, name) == [kind |-> kind, elem |-> elem, type |-> type, name |-> name]

NilDest == Dest("nil", "", "", "")
TableDest == Dest("string", "", "", "users")
UserDest == Dest("struct", "", "User", "")
MapDest == Dest("map", "", "", "")
OrdersDest == Dest("slice", "struct", "Order", "")
MapsDest == Dest("slice", "map", "", "")
IntsDest == Dest("slice", "int", "", "")
IntDest == Dest("int", "", "", "")
FuncDest == Dest("func", "", "", "")

Dests ==
    {NilDest, TableDest, UserDest, MapDest, OrdersDest, MapsDest, IntsDest, IntDest, FuncDest}

\* the destinations parseTable accepts
Recognized(d) ==
    \/ d.kind \in {"string", "struct", "map"}
    \/ d.kind = "slice" /\ d.elem \in {"struct", "map"}

BindTypes ==
    {"OBJECT_STRUCT", "OBJECT_STRUCT_SLICE", "OBJECT_MAP", "OBJECT_MAP_SLICE", "OBJECT_STRING"}

\* column values: integers, texts, raw bytes and NULL
IntVal(v) == [t |-> "int", v |-> v]
TextVal(v) == [t |-> "text", v |-> v]
BytesVal(v) == [t |-> "bytes", v |-> v]
Null == [t |-> "nil", v |-> 0]

\* the columns every statement of the model returns
Columns == <<"id", "name">>

\* a record of either type has an integer field and a text field
ZeroRecord == <<IntVal(0), TextVal(0)>>

\* what a map holds for a key it does not have
Absent == [t |-> "absent", v |-> 0]

\* a map, by column
EmptyMap == [c \in 1..Len(Columns) |-> Absent]

\* reflect's Value.SetMapIndex(key, reflect.ValueOf(v)): reflect.ValueOf of
\* a nil interface is the zero Value, for which SetMapIndex deletes the key
SetMapIndex(m, c, v) == [m EXCEPT ![c] = IF v = Null THEN Absent ELSE v]

\* a map with every column set in turn, from column c on
RECURSIVE SetColumns(_, _, _)
SetColumns(m, vals, c) ==
    IF c > Len(Columns) THEN m
    ELSE SetColumns(SetMapIndex(m, c, vals[c]), vals, c + 1)

Invalid == [kind |-> "invalid", ref |-> 0]

\* getTagName: the column names of a record type, in the order its fields
\* are declared
getTagName(type) ==
    IF type = "User" THEN <<"id", "name">> ELSE <<"oid", "item">>

\* the table of a record type: its BindName() method when it has one (Order
\* has), the name of the type when it has none (User)
TableOf(type) == IF type = "Order" THEN "orders" ELSE type

Binder ==
    [BindOrigin |-> BindOrigin, BindType |-> BindType, BindName |-> BindName,
     BindFields |-> BindFields, BindLimit |-> BindLimit, BindResult |-> BindResult,
     BindResultSlice |-> BindResultSlice, tmplRecord |-> tmplRecord,
     nextMap |-> nextMap, err |-> NoErr]

\* Session.parseFields
parseFields(b) ==
    IF Len(b.BindFields) = 0
    THEN [b EXCEPT !.BindFields = getTagName(b.BindOrigin.type)]
    ELSE b

\* Session.parseTable
parseTable(b) ==
    LET d == b.BindOrigin
        c == [b EXCEPT !.BindFields = <<>>]
    IN
    IF d.kind = "nil" THEN b
    ELSE IF d.kind = "string"
    THEN [b EXCEPT !.BindType = "OBJECT_STRING", !.BindName = d.name]
    ELSE IF d.kind = "struct"
    THEN parseFields([c EXCEPT !.BindType = "OBJECT_STRUCT",
                               !.BindResult = [kind |-> "struct", ref |-> 0],
                               !.BindLimit = 1,
                               !.BindName = TableOf(d.type)])
    ELSE IF d.kind = "map"
    THEN [c EXCEPT !.BindType = "OBJECT_MAP",
                   !.BindLimit = 1,
                   !.BindResult = [kind |-> "map", ref |-> 0],
                   !.BindName = ""]
    ELSE IF d.kind = "slice" /\ d.elem = "map"
    THEN [c EXCEPT !.BindType = "OBJECT_MAP_SLICE",
                   !.BindResult = [kind |-> "map", ref |-> b.nextMap],
                   !.nextMap = b.nextMap + 1,
                   !.BindResultSlice = "maps",
                   !.BindName = ""]
    ELSE IF d.kind = "slice" /\ d.elem = "struct"
    THEN parseFields([c EXCEPT !.BindType = "OBJECT_STRUCT_SLICE",
                               !.BindName = TableOf(d.type),
                               !.BindResult = [kind |-> "ptr", ref |-> 0],
                               !.tmplRecord = ZeroRecord,
                               !.BindResultSlice = "records"])
    ELSE [c EXCEPT !.err = "ErrBind"]

\* Session.Bind: s.BindOrigin = tab; _ = s.parseTable(); return s
Bind(b, tab) == parseTable([b EXCEPT !.BindOrigin = tab])

-----------------------------------------------------------------------------
(* The row scanners.  A cursor is the rows the statement returns, in       *)
(* order, and the error rows.Err() reports once they are exhausted.  A row *)
(* is its column values and whether rows.Scan fails on it before it        *)
(* assigns anything (the cursor was closed under it).                      *)

Row(vals, bad) == [vals |-> vals, bad |-> bad]

ErrNoRows == "sql: no rows in result set"

\* no statement has been read yet, or the last one did not reach the scanner
NotScanned ==
    [shape |-> "none", rows |-> 0, nexts |-> 0, cursor |-> [rows |-> <<>>, err |-> NoErr]]

\* the caller's values and the binder's record, as the scanners change
\* them; nexts counts the rows rows.Next() has advanced to, rows the rows
\* the scanner has stored
Heap ==
    [rec |-> dstRecord, tmpl |-> tmplRecord, recs |-> dstRecords, dmaps |-> dstMaps,
     maps |-> maps, err |-> NoErr, panicked |-> FALSE, rows |-> 0, nexts |-> 0]

\* rows.Scan into the fields of a record (an int field, then a string
\* field): destinations are assigned in order, and the first value that
\* does not convert ends the scan with an error
ScanRecord(rec, row) ==
    IF row.bad THEN [rec |-> rec, err |-> "ErrScan"]
    ELSE IF row.vals[1].t # "int" THEN [rec |-> rec, err |-> "ErrScan"]
    ELSE LET one == [rec EXCEPT ![1] = row.vals[1]] IN
         IF row.vals[2].t \notin {"text", "bytes"}
         THEN [rec |-> one, err |-> "ErrScan"]
         ELSE [rec |-> [one EXCEPT ![2] = TextVal(row.vals[2].v)], err |-> NoErr]

\* if b, ok := val.([]byte); ok { v = string(b) } else { v = val }
Decoded(val) == IF val.t = "bytes" THEN TextVal(val.v) ELSE val

\* Session.scanMapAll, from row i on; values is the slice the rows are
\* scanned into, which a failed rows.Scan leaves as it was
RECURSIVE scanMapAllFrom(_, _, _, _)
scanMapAllFrom(h, rows, i, values) ==
    IF i > Len(rows) THEN h
    ELSE
    LET vals == IF rows[i].bad THEN values ELSE rows[i].vals IN
    IF BindResult.kind # "map"
    THEN [h EXCEPT !.panicked = TRUE, !.nexts = i]
    ELSE
    LET set == [h EXCEPT !.maps[BindResult.ref] =
                            SetColumns(@, [c \in 1..Len(Columns) |-> Decoded(vals[c])], 1),
                         !.rows = i, !.nexts = i]
        appended == IF BindType = "OBJECT_MAP_SLICE"
                    THEN [set EXCEPT !.dmaps = Append(@, BindResult.ref)]
                    ELSE set
    IN scanMapAllFrom(appended, rows, i + 1, vals)

\* Session.scanMapAll: the error it returns is that of rows.Columns()
scanMapAll(h, cursor) ==
    scanMapAllFrom(h, cursor.rows, 1, [c \in 1..Len(Columns) |-> Null])

\* a scanMap that stops at the first row
scanMapFirstRow(h, cursor) ==
    scanMapAll(h, [cursor EXCEPT !.rows = IF @ = <<>> THEN <<>> ELSE <<@[1]>>])

\* Session.scanMap
scanMap(h, cursor) == scanMapAll(h, cursor)

\* strutForScan: pointers to the fields of the record dst points to;
\* reflection panics on anything that is not a record
strutForScanPanics(dst) == dst.kind # "struct"

\* a scanRow that reads the cursor to its end and keeps the last row
scanRowKeepsLast(h, cursor, dst) ==
    IF Len(cursor.rows) = 0
    THEN [h EXCEPT !.err = IF cursor.err # NoErr THEN cursor.err ELSE ErrNoRows]
    ELSE IF strutForScanPanics(dst)
    THEN [h EXCEPT !.panicked = TRUE, !.nexts = 1]
    ELSE LET r == ScanRecord(h.rec, cursor.rows[Len(cursor.rows)]) IN
         [h EXCEPT !.rec = r.rec, !.err = r.err, !.nexts = Len(cursor.rows),
                   !.rows = IF r.err = NoErr THEN 1 ELSE 0]

\* a scanRow that reports an exhausted cursor as rows.Err() alone
scanRowWithoutNoRows(h, cursor, dst) ==
    IF Len(cursor.rows) = 0
    THEN [h EXCEPT !.err = cursor.err]
    ELSE IF strutForScanPanics(dst)
    THEN [h EXCEPT !.panicked = TRUE, !.nexts = 1]
    ELSE LET r == ScanRecord(h.rec, cursor.rows[1]) IN
         [h EXCEPT !.rec = r.rec, !.err = r.err, !.nexts = 1,
                   !.rows = IF r.err = NoErr THEN 1 ELSE 0]

\* Session.scanRow
scanRow(h, cursor, dst) ==
    IF Len(cursor.rows) = 0
    THEN [h EXCEPT !.err = IF cursor.err # NoErr THEN cursor.err ELSE ErrNoRows]
    ELSE IF strutForScanPanics(dst)
    THEN [h EXCEPT !.panicked = TRUE, !.nexts = 1]
    ELSE LET r == ScanRecord(h.rec, cursor.rows[1]) IN
         [h EXCEPT !.rec = r.rec, !.err = r.err, !.nexts = 1,
                   !.rows = IF r.err = NoErr THEN 1 ELSE 0]

\* Session.scanAll, from row i on
RECURSIVE scanAllFrom(_, _, _)
scanAllFrom(h, cursor, i) ==
    IF i > Len(cursor.rows) THEN [h EXCEPT !.err = cursor.err]
    ELSE IF BindResult.kind # "ptr"
    THEN [h EXCEPT !.panicked = TRUE, !.nexts = i]
    ELSE LET r == ScanRecord(h.tmpl, cursor.rows[i]) IN
         IF r.err # NoErr
         THEN [h EXCEPT !.tmpl = r.rec, !.err = r.err, !.nexts = i]
         ELSE scanAllFrom([h EXCEPT !.tmpl = r.rec, !.recs = Append(@, r.rec),
                                    !.rows = i, !.nexts = i],
                          cursor, i + 1)

\* a scanAll whose appended elements all share the record rows are scanned
\* into
scanAllShared(h, cursor) ==
    LET r == scanAllFrom(h, cursor, 1) IN
    [r EXCEPT !.recs = [j \in 1..Len(r.recs) |->
                            IF j > Len(h.recs) THEN r.tmpl ELSE r.recs[j]]]

\* Session.scanAll
scanAll(h, cursor) == scanAllFrom(h, cursor, 1)

\* a scan that takes any other shape for a record
scanDefaultsToRecord(h, cursor) ==
    CASE BindType = "OBJECT_STRUCT_SLICE" -> scanAll(h, cursor)
      [] BindType = "OBJECT_MAP" -> scanMap(h, cursor)
      [] BindType = "OBJECT_MAP_SLICE" -> scanMapAll(h, cursor)
      [] OTHER -> scanRow(h, cursor, BindOrigin)

\* Session.scan
scan(h, cursor) ==
    CASE BindType = "OBJECT_STRUCT" -> scanRow(h, cursor, BindOrigin)
      [] BindType = "OBJECT_STRUCT_SLICE" -> scanAll(h, cursor)
      [] BindType = "OBJECT_MAP" -> scanMap(h, cursor)
      [] BindType = "OBJECT_MAP_SLICE" -> scanMapAll(h, cursor)
      [] OTHER -> [h EXCEPT !.err = "Bind value error"]

\* the connection Query prepares on: s.slaveDB.Prepare(sqlstring)
ReadConnLikeExecute(s) == IF s.tx = 0 THEN Slave ELSE TxConn(s.tx)

ReadConn(s) == Slave

\* what runs when Query returns after stmt.Query succeeded:
\* defer stmt.Close() and defer rows.Close(), last deferred first
ReleaseOnSuccessOnly(s, who, conn, h) ==
    IF h.err = NoErr /\ ~h.panicked
    THEN Did(Did(s, Call("RowsClose", who, conn, NoErr)), Call("StmtClose", who, conn, NoErr))
    ELSE Did(s, Call("StmtClose", who, conn, NoErr))

Release(s, who, conn, h) ==
    Did(Did(s, Call("RowsClose", who, conn, NoErr)), Call("StmtClose", who, conn, NoErr))

\* Session.Query.  drv holds the errors of Prepare and of stmt.Query, cursor
\* the rows stmt.Query returns.  The value is the session and the heap
\* after the call.
Query(s0, who, sqlstring, args, drv, cursor) ==
    LET s == [Record(Enter(s0), Sprintf(sqlstring, args)) EXCEPT !.lastStmt = sqlstring]
        conn == ReadConn(s)
    IN
    IF drv.prepare # NoErr
    THEN [s |-> [Did(s, Call("Prepare", who, conn, drv.prepare)) EXCEPT !.err = drv.prepare],
          h |-> Heap]
    ELSE
    LET prepared == Did(s, Call("Prepare", who, conn, NoErr)) IN
    IF drv.exec # NoErr
    THEN [s |-> [Did(Did(prepared, Call("Query", who, conn, drv.exec)),
                     Call("StmtClose", who, conn, NoErr))
                   EXCEPT !.err = drv.exec],
          h |-> Heap]
    ELSE
    LET opened == Did(prepared, Call("Query", who, conn, NoErr))
        h == scan(Heap, cursor)
    IN [s |-> [Release(opened, who, conn, h) EXCEPT !.err = h.err, !.panicked = h.panicked],
        h |-> h]

-----------------------------------------------------------------------------
(* What the environment may answer, and what callers may pass. *)

\* identifiers the database generates
MaxId == 2

Ids == 1..MaxId

\* the driver's answers to one Execute; an answer that is never asked for
\* (after an earlier failure) is left at its first value
Drivers ==
    {d \in [prepare : {NoErr, "ErrPrepare"}, exec : {NoErr, "ErrExec"},
            lid : Ids, lidErr : {NoErr, "ErrLastInsertId"},
            n : {0, 1}, raErr : {NoErr, "ErrRowsAffected"}] :
        /\ (d.prepare # NoErr \/ d.exec # NoErr) =>
                d.lid = 1 /\ d.lidErr = NoErr /\ d.n = 0 /\ d.raErr = NoErr
        /\ d.prepare # NoErr => d.exec = NoErr
        /\ d.lidErr # NoErr => d.lid = 1}

Rest == <<" ", "%", "d">>

\* the statements and driver answers used where transactions are explored:
\* a write and a read; Prepare fails, Exec fails, or the write succeeds
TxStmts == {INSERT \o Rest, <<"S","e","l","e","c","T">> \o Rest}
TxDrivers ==
    {d \in Drivers : /\ d.lid = 1 /\ d.lidErr = NoErr /\ d.raErr = NoErr
                     /\ d.n = IF d.prepare = NoErr /\ d.exec = NoErr THEN 1 ELSE 0}

ArgLists == {<<7>>}

CommitErrs == {NoErr, "ErrCommit"}
RollbackErrs == {NoErr, "ErrRollback"}
CloserErrs == {NoErr, "ErrCloser"}

\* the rows statements return: an integer with raw bytes, an integer with
\* a text, a NULL where a record has a string field, and a row rows.Scan
\* fails on
RowPool ==
    {Row(<<IntVal(1), BytesVal(1)>>, FALSE),
     Row(<<IntVal(2), TextVal(2)>>, FALSE),
     Row(<<IntVal(4), Null>>, FALSE),
     Row(<<IntVal(5), BytesVal(5)>>, TRUE)}

RECURSIVE SeqsUpTo(_, _)
SeqsUpTo(S, n) ==
    IF n = 0 THEN {<<>>}
    ELSE LET shorter == SeqsUpTo(S, n - 1) IN
         shorter \cup {Append(q, x) : q \in {p \in shorter : Len(p) = n - 1}, x \in S}

\* rows.Scan fails without assigning only on a cursor that has been closed,
\* and rows.Next() returns false on a closed cursor: such a row is the last.
\* The cursors that end in an error of their own deliver at most one row.
Cursors ==
    {c \in [rows : SeqsUpTo(RowPool, MaxRows), err : {NoErr, "ErrRows"}] :
        /\ \A i \in 1..Len(c.rows) : c.rows[i].bad => i = Len(c.rows)
        /\ c.err # NoErr => Len(c.rows) <= 1}

ReadDrivers ==
    {d \in [prepare : {NoErr, "ErrPrepare"}, exec : {NoErr, "ErrQuery"}] :
        d.prepare # NoErr => d.exec = NoErr}

\* the statements callers read with
ReadStmts == {SELECT \o Rest}

\* the statement log has room for the statement a Read or Write records
LogRoom(s) == enableQueryLog => Len(s.sqlLogs) < MaxLog

-----------------------------------------------------------------------------
(* Actions: one per method a caller invokes on the session. *)

Count(calls, names) == Cardinality({i \in 1..Len(calls) : calls[i].call \in names})

\* s becomes the session; statements and cursors opened and not closed by
\* the calls of s stay open
Apply(s) ==
    /\ tx' = s.tx
    /\ nextTx' = s.nextTx
    /\ lastSql' = s.lastSql
    /\ sqlLogs' = s.sqlLogs
    /\ lastInsertId' = s.lastInsertId
    /\ lastStmt' = s.lastStmt
    /\ inTx' = s.inTx
    /\ beganLast' = s.beganLast
    /\ openStmts' = openStmts
                    + Cardinality({i \in 1..Len(s.calls) :
                                     s.calls[i].call = "Prepare" /\ s.calls[i].err = NoErr})
                    - Count(s.calls, {"StmtClose"})
    /\ openRows' = openRows
                    + Cardinality({i \in 1..Len(s.calls) :
                                     s.calls[i].call = "Query" /\ s.calls[i].err = NoErr})
                    - Count(s.calls, {"RowsClose"})

Result(op, s) == IF s.panicked THEN Panicked(op) ELSE Returned(op, s.err, s.n)

\* a method called by the session's owner runs to its end
Finish(op, s) ==
    /\ pc = "idle"
    /\ Apply(s)
    /\ trace' = s.calls
    /\ closerTrace' = <<>>
    /\ ret' = Result(op, s)
    /\ UNCHANGED <<pc, nclosers, idx, enableQueryLog, binderVars, heapVars>>

CallBegin ==
    \E ok \in BOOLEAN :
        /\ ok => nextTx <= MaxTx
        /\ Finish("Begin", Begin(Cur, "session", ok))

CallRollback ==
    \E e \in RollbackErrs : Finish("Rollback", Rollback(Cur, "session", e))

CallCommit ==
    \E e \in CommitErrs : Finish("Commit", Commit(Cur, "session", e))

CallExecute(stmts, drivers) ==
    \E sqlstring \in stmts, args \in ArgLists, drv \in drivers :
        /\ LogRoom(Cur)
        /\ Finish("Execute", Execute(Cur, "session", sqlstring, args, drv))

\* the caller reads: Query runs to its end, and its scanner's changes to
\* the caller's values stay
CallQuery(stmts, cursors) ==
    \E sqlstring \in stmts, args \in ArgLists, drv \in ReadDrivers, cursor \in cursors :
        LET q == Query(Cur, "session", sqlstring, args, drv, cursor) IN
        /\ pc = "idle"
        /\ LogRoom(Cur)
        /\ drv.prepare # NoErr \/ drv.exec # NoErr => cursor = [rows |-> <<>>, err |-> NoErr]
        /\ Len(q.h.recs) <= MaxElems
        /\ Len(q.h.dmaps) <= MaxElems
        /\ Apply(q.s)
        /\ trace' = q.s.calls
        /\ closerTrace' = <<>>
        /\ ret' = Result("Query", q.s)
        /\ dstRecord' = q.h.rec
        /\ tmplRecord' = q.h.tmpl
        /\ dstRecords' = q.h.recs
        /\ dstMaps' = q.h.dmaps
        /\ maps' = q.h.maps
        /\ scanned' = IF drv.prepare = NoErr /\ drv.exec = NoErr
                       THEN [shape |-> BindType, rows |-> q.h.rows,
                             nexts |-> q.h.nexts, cursor |-> cursor]
                       ELSE NotScanned
        /\ UNCHANGED <<pc, nclosers, idx, enableQueryLog, BindOrigin, BindType, BindName,
                       BindFields, BindLimit, BindResult, BindResultSlice, nextMap>>

NoConn == [kind |-> "none", id |-> 0]

\* the caller binds a destination; what parseTable returned is recorded,
\* Bind itself returns the session
CallBind(dests) ==
    \E tab \in dests :
        /\ pc = "idle"
        /\ tab = MapsDest => nextMap <= MaxTemplates
        /\ LET b == Bind(Binder, tab) IN
            /\ BindOrigin' = b.BindOrigin
            /\ BindType' = b.BindType
            /\ BindName' = b.BindName
            /\ BindFields' = b.BindFields
            /\ BindLimit' = b.BindLimit
            /\ BindResult' = b.BindResult
            /\ BindResultSlice' = b.BindResultSlice
            /\ tmplRecord' = b.tmplRecord
            /\ nextMap' = b.nextMap
            /\ trace' = <<Call("parseTable", "session", NoConn, b.err)>>
        /\ ret' = Returned("Bind", NoErr, 0)
        /\ closerTrace' = <<>>
        /\ UNCHANGED <<tx, lastInsertId, sqlLogs, lastSql, enableQueryLog, nextTx,
                       openStmts, openRows, pc, nclosers, idx, lastStmt, inTx, beganLast,
                       heapVars>>

\* the lists of fields callers set
FieldLists == {<<"id">>, <<"name", "id">>}

\* the caller sets the field list of the binder itself (s.BindFields = fields)
SetBindFields ==
    \E fields \in FieldLists :
        /\ pc = "idle"
        /\ BindFields' = fields
        /\ trace' = <<>>
        /\ closerTrace' = <<>>
        /\ ret' = Returned("SetBindFields", NoErr, 0)
        /\ UNCHANGED <<tx, lastInsertId, sqlLogs, lastSql, enableQueryLog, nextTx,
                       openStmts, openRows, pc, nclosers, idx, lastStmt, inTx, beganLast,
                       BindOrigin, BindType, BindName, BindLimit, BindResult,
                       BindResultSlice, tmplRecord, nextMap, heapVars>>

\* Session.Transaction up to its loop: err = s.Begin(); if err != nil { return err }
Transaction ==
    \E len \in 0..MaxClosers, ok \in BOOLEAN :
        /\ pc = "idle"
        /\ ok => nextTx <= MaxTx
        /\ LET s == Begin(Cur, "txn", ok) IN
            /\ Apply(s)
            /\ trace' = s.calls
            /\ closerTrace' = <<>>
            /\ nclosers' = len
            /\ idx' = 1
            /\ IF s.err # NoErr
               THEN pc' = "idle" /\ ret' = Returned("Transaction", s.err, 0)
               ELSE pc' = "closers" /\ ret' = Running("Transaction")
        /\ UNCHANGED <<enableQueryLog, binderVars, heapVars>>

\* what a closer may do with the session it is passed before it returns:
\* nothing, or one call of Begin, Commit, Rollback or Execute
CloserBodies(s) ==
    {Enter(s)}
    \cup {Begin(s, "closer", ok) : ok \in {b \in BOOLEAN : b => s.nextTx <= MaxTx}}
    \cup {Commit(s, "closer", e) : e \in CommitErrs}
    \cup {Rollback(s, "closer", e) : e \in RollbackErrs}
    \cup {Execute(s, "closer", q, a, d) :
            q \in {x \in TxStmts : LogRoom(s)}, a \in ArgLists, d \in TxDrivers}

ByTxn(c) == c.by = "txn"

CloserEvent(i, err) == Call("closer", "txn", [kind |-> "closer", id |-> i], err)

AfterCloserCommits(called, cerr, e) ==
    IF ~called.panicked /\ cerr # NoErr
    THEN Commit(called, "txn", e)
    ELSE called

\* what Transaction does once the closer has returned cerr:
\* if err != nil { _ = s.Rollback(); return }
AfterCloser(called, cerr, e) ==
    IF ~called.panicked /\ cerr # NoErr
    THEN Rollback(called, "txn", e)
    ELSE called

\* one round of the loop: err = closer(s), then AfterCloser
TransactionCloser ==
    /\ pc = "closers"
    /\ idx <= nclosers
    /\ \E body \in CloserBodies(Cur), cerr \in CloserErrs, e \in RollbackErrs :
        LET called == IF body.panicked THEN body ELSE Did(body, CloserEvent(idx, cerr))
            s == AfterCloser(called, cerr, e)
        IN
        /\ Apply(s)
        /\ trace' = trace \o SelectSeq(s.calls, ByTxn)
        /\ closerTrace' = body.calls
        /\ IF s.panicked
           THEN pc' = "idle" /\ idx' = 1 /\ ret' = Panicked("Transaction")
           ELSE IF cerr # NoErr
           THEN pc' = "idle" /\ idx' = 1 /\ ret' = Returned("Transaction", cerr, 0)
           ELSE pc' = pc /\ idx' = idx + 1 /\ ret' = ret
    /\ UNCHANGED <<nclosers, enableQueryLog, binderVars, heapVars>>

\* after the loop: return s.Commit()
TransactionCommit ==
    /\ pc = "closers"
    /\ idx > nclosers
    /\ \E e \in CommitErrs :
        LET s == Commit(Cur, "txn", e) IN
        /\ Apply(s)
        /\ trace' = trace \o s.calls
        /\ closerTrace' = closerTrace
        /\ ret' = Result("Transaction", s)
    /\ pc' = "idle"
    /\ idx' = 1
    /\ UNCHANGED <<nclosers, enableQueryLog, binderVars, heapVars>>

-----------------------------------------------------------------------------
(* The session after NewSession: no transaction, nothing logged. *)

\* new(Binder): every field has its zero value.  The zero value of BindType
\* is whichever constant is declared first, which this file does not show.
NewBinder ==
    /\ BindOrigin = NilDest
    /\ BindType \in BindTypes
    /\ BindName = ""
    /\ BindFields = <<>>
    /\ BindLimit = 0
    /\ BindResult = Invalid
    /\ BindResultSlice = "none"
    /\ tmplRecord = ZeroRecord
    /\ nextMap = 1

\* what the caller owns: an empty record, empty slices, an empty map
NewHeap ==
    /\ dstRecord = ZeroRecord
    /\ dstRecords = <<>>
    /\ dstMaps = <<>>
    /\ maps = [m \in 0..MaxTemplates |-> EmptyMap]
    /\ scanned = NotScanned

Fresh ==
    /\ NewHeap
    /\ tx = 0
    /\ lastInsertId = 0
    /\ sqlLogs = <<>>
    /\ lastSql = <<>>
    /\ nextTx = 1
    /\ openStmts = 0
    /\ openRows = 0
    /\ pc = "idle"
    /\ nclosers = 0
    /\ idx = 1
    /\ trace = <<>>
    /\ closerTrace = <<>>
    /\ ret = Returned("NewSession", NoErr, 0)
    /\ lastStmt = <<>>
    /\ inTx = FALSE
    /\ beganLast = FALSE

\* query logging is off, and nothing is bound
Init ==
    /\ Fresh
    /\ enableQueryLog = FALSE
    /\ NewBinder /\ BindType = "OBJECT_STRUCT"

Next ==
    \/ CallBegin
    \/ CallRollback
    \/ CallCommit
    \/ CallExecute(TxStmts, TxDrivers)
    \/ Transaction
    \/ TransactionCloser
    \/ TransactionCommit

Spec == Init /\ [][Next]_vars

\* The write path alone, with every answer of the driver.

WriteStmts ==
    {INSERT \o Rest, <<"I","n","S","e","R","t">> \o Rest, UPDATE \o Rest,
     <<"U","P","D","A","T","E">> \o Rest, DELETE \o Rest,
     <<"S","e","l","e","c","T">> \o Rest}

NextWrite ==
    \/ CallBegin
    \/ CallRollback
    \/ CallCommit
    \/ CallExecute(WriteStmts, Drivers)

SpecWrite == Init /\ [][NextWrite]_vars

\* The write path alone, with every letter case of "select", texts that
\* only resemble it, and a write.

SelectStmts ==
    {w \o Rest : w \in CaseVariants(SELECT)}
    \cup {SELECT, SELECT \o <<"x">>, <<" ">> \o SELECT, <<"s","e","l","e","c">>,
          <<"s","e","l","e","k","t">> \o Rest, INSERT \o Rest}

NextSelect ==
    \/ CallBegin
    \/ CallRollback
    \/ CallCommit
    \/ CallExecute(SelectStmts, TxDrivers)

SpecSelect == Init /\ [][NextSelect]_vars

\* Reads: destinations are bound and read into, inside and outside a
\* transaction.

InitRead ==
    /\ Fresh
    /\ enableQueryLog = FALSE
    /\ NewBinder

\* a record, a slice of records and an integer are bound; a statement
\* returns at most one row, which scans or does not, or no row and an
\* error of the cursor
ReadDests == {UserDest, OrdersDest, IntDest}

ReadCursors ==
    {c \in Cursors :
        /\ Len(c.rows) <= 1
        /\ c.rows # <<>> => c.err = NoErr
        /\ \A i \in 1..Len(c.rows) :
            c.rows[i] \in {Row(<<IntVal(1), BytesVal(1)>>, FALSE),
                           Row(<<IntVal(5), BytesVal(5)>>, TRUE)}}

NextRead ==
    \/ CallBind(ReadDests)
    \/ CallQuery(ReadStmts, ReadCursors)
    \/ CallBegin
    \/ CallCommit

SpecRead == InitRead /\ [][NextRead]_vars

\* Binding alone: every destination, and field lists set by the caller.

InitBind ==
    /\ Fresh
    /\ enableQueryLog = FALSE
    /\ NewBinder

NextBind ==
    \/ CallBind(Dests)
    \/ SetBindFields

SpecBind == InitBind /\ [][NextBind]_vars

\* Reading into one destination, from cursors of several rows: a record,

NextRecord ==
    \/ CallBind({UserDest})
    \/ CallQuery(ReadStmts, Cursors)

SpecRecord == InitRead /\ [][NextRecord]_vars

\* a slice of records,

NextRecordList ==
    \/ CallBind({OrdersDest})
    \/ CallQuery(ReadStmts, Cursors)

SpecRecordList == InitRead /\ [][NextRecordList]_vars

\* a map,

NextMap ==
    \/ CallBind({MapDest})
    \/ CallQuery(ReadStmts, Cursors)

SpecMap == InitRead /\ [][NextMap]_vars

\* and a slice of maps.

NextMapList ==
    \/ CallBind({MapsDest})
    \/ CallQuery(ReadStmts, Cursors)

SpecMapList == InitRead /\ [][NextMapList]_vars

\* Reading with a table name bound: a table name and a record are bound,
\* in either order.

NextTable ==
    \/ CallBind({TableDest, UserDest})
    \/ CallQuery(ReadStmts, ReadCursors)

SpecTable == InitRead /\ [][NextTable]_vars

\* The statement log: writes that succeed, fail, are rejected or are too
\* short to have a keyword, reads that succeed or fail, with the log on and
\* off.

\* what IfEnableQueryLog() answers changes: the engine's query log is
\* switched on or off
SetQueryLog ==
    /\ pc = "idle"
    /\ enableQueryLog' = ~enableQueryLog
    /\ trace' = <<>>
    /\ closerTrace' = <<>>
    /\ ret' = Returned("SetQueryLog", NoErr, 0)
    /\ UNCHANGED <<tx, lastInsertId, sqlLogs, lastSql, nextTx, openStmts, openRows, pc,
                   nclosers, idx, lastStmt, inTx, beganLast, binderVars, heapVars>>

InitLog ==
    /\ Fresh
    /\ enableQueryLog \in BOOLEAN
    /\ NewBinder /\ BindType = "OBJECT_STRING"

LogStmts ==
    {INSERT \o Rest, INSERT, <<"S","e","l","e","c","T">> \o Rest, <<"s","e","l">>}

EmptyCursors == {c \in Cursors : c.rows = <<>>}

NextLog ==
    \/ CallExecute(LogStmts, TxDrivers)
    \/ CallQuery(ReadStmts, EmptyCursors)
    \/ SetQueryLog

SpecLog == InitLog /\ [][NextLog]_vars

-----------------------------------------------------------------------------
(* Transaction: the order of the closers, rollback and commit. *)

\* the closers Transaction has invoked, in the order of their invocation
ClosersRun == SelectSeq(trace, LAMBDA c : c.call = "closer")

TxnCalls(name) ==
    Cardinality({i \in 1..Len(trace) : trace[i].call = name /\ trace[i].by = "txn"})

\* Transaction has returned, and its Begin had succeeded
TransactionReturned ==
    /\ ret.op = "Transaction" /\ ret.status = "returned"
    /\ trace # <<>> /\ trace[1].call = "Begin" /\ trace[1].err = NoErr

SomeCloserFailed == \E i \in 1..Len(ClosersRun) : ClosersRun[i].err # NoErr

\* closers are invoked in the given order, and none after one that failed
InOrderUntilFailure ==
    ret.op = "Transaction" =>
        /\ Len(ClosersRun) <= nclosers
        /\ \A i \in 1..Len(ClosersRun) :
            /\ ClosersRun[i].on.id = i
            /\ ClosersRun[i].err # NoErr => i = Len(ClosersRun)

\* a closer failed: a rollback, no commit, that closer's error
RolledBackOnFailure ==
    TransactionReturned /\ SomeCloserFailed =>
        /\ TxnCalls("Rollback") = 1
        /\ TxnCalls("Commit") = 0
        /\ trace[Len(trace)].call = "Rollback"
        /\ ret.err = ClosersRun[Len(ClosersRun)].err

\* C1 (as claimed): Transaction invokes its closers in the given order; at
\* the first closer that returns an error it issues a rollback, invokes no
\* later closer, issues no commit and returns that closer's error; when
\* every closer succeeds it issues a commit, no rollback, and returns no
\* error.
C1_Original ==
    /\ InOrderUntilFailure
    /\ RolledBackOnFailure
    /\ TransactionReturned /\ ~SomeCloserFailed =>
        /\ Len(ClosersRun) = nclosers
        /\ TxnCalls("Commit") = 1
        /\ TxnCalls("Rollback") = 0
        /\ ret.err = NoErr

\* C1 (amended): as claimed, except that when every closer succeeds
\* Transaction returns what the commit returned: no error when the commit
\* succeeded, the commit's error when it failed.
C1_TransactionOrder ==
    /\ InOrderUntilFailure
    /\ RolledBackOnFailure
    /\ TransactionReturned /\ ~SomeCloserFailed =>
        /\ Len(ClosersRun) = nclosers
        /\ TxnCalls("Commit") = 1
        /\ TxnCalls("Rollback") = 0
        /\ trace[Len(trace)].call = "Commit"
        /\ ret.err = trace[Len(trace)].err

\* closers [ok, ok, fail, ok]: three were run, the fourth was not, and
\* Transaction returned the third one's error after a rollback
C1_Witness ==
    /\ TransactionReturned
    /\ nclosers = 4
    /\ Len(ClosersRun) = 3
    /\ ClosersRun[3].err = "ErrCloser"
    /\ ret.err = "ErrCloser"
    /\ trace[Len(trace)].call = "Rollback"

-----------------------------------------------------------------------------
(* Commit and Rollback clear the transaction handle. *)

\* C2: after Commit or Rollback returns (called by the session's owner or
\* by a closer), whether the database's commit or rollback succeeded or
\* failed, the session has no transaction handle.
C2_HandleCleared ==
    /\ ret.op \in {"Commit", "Rollback"} /\ ret.status = "returned" => tx = 0
    /\ /\ pc = "closers"
       /\ closerTrace # <<>>
       /\ closerTrace[Len(closerTrace)].call \in {"Commit", "Rollback"}
       => tx = 0

\* a commit that failed in the database, after which no transaction is active
C2_Witness ==
    /\ ret = Returned("Commit", "ErrCommit", 0)
    /\ trace = <<Call("Commit", "session", TxConn(1), "ErrCommit")>>
    /\ tx = 0

-----------------------------------------------------------------------------
(* Execute goes through the transaction handle when there is one. *)

\* the connections the calls of a trace prepared and executed statements on
WrittenOn(calls) ==
    {calls[i].on : i \in {j \in 1..Len(calls) : calls[j].call \in {"Prepare", "Exec"}}}

ConnOf(h) == IF h = 0 THEN Master ELSE TxConn(h)

\* a step in which the session's owner called Execute
ExecuteStep == ret'.op = "Execute" /\ vars' # vars

\* a step in which a closer ran
CloserStep == pc = "closers" /\ idx <= nclosers /\ vars' # vars

\* a Write is prepared and executed on the handle present when it is called
RoutedByHandle ==
    /\ ExecuteStep => WrittenOn(trace') \subseteq {ConnOf(tx)}
    /\ CloserStep => WrittenOn(closerTrace') \subseteq {ConnOf(tx)}

\* C3 (as claimed): a Write is prepared and executed on the transaction
\* handle when one is present and on the master connection otherwise; every
\* Write between a successful Begin and the next Commit/Rollback goes
\* through the transaction, every Write after a Commit/Rollback through the
\* master connection.
C3_Original ==
    [][/\ RoutedByHandle
       /\ ExecuteStep /\ inTx => \A c \in WrittenOn(trace') : c.kind = "tx"
       /\ ExecuteStep /\ ~inTx => \A c \in WrittenOn(trace') : c = Master]_vars

\* C3 (amended): a Write is prepared and executed on the transaction handle
\* when one is present and on the master connection otherwise; every Write
\* between a successful Begin and the next call of Begin, Commit or Rollback
\* goes through the transaction that Begin opened, and every Write after a
\* failed Begin, a Commit or a Rollback (and before the next successful
\* Begin) goes through the master connection.
C3_WriteRouting ==
    [][/\ RoutedByHandle
       /\ ExecuteStep /\ beganLast =>
            \A c \in WrittenOn(trace') : c = TxConn(nextTx - 1)
       /\ ExecuteStep /\ ~beganLast => \A c \in WrittenOn(trace') : c = Master
       /\ CloserStep /\ beganLast =>
            \A c \in WrittenOn(closerTrace') : c = TxConn(nextTx - 1)
       /\ CloserStep /\ ~beganLast =>
            \A c \in WrittenOn(closerTrace') : c = Master]_vars

\* a Write executed on the second transaction's handle, after the first
\* transaction was committed
C3_Witness ==
    /\ ret.op = "Execute" /\ ret.err = NoErr
    /\ WrittenOn(trace) = {TxConn(2)}
    /\ beganLast

\* a Write executed on the master connection after a rollback
C3_WitnessMaster ==
    /\ ret.op = "Execute" /\ ret.err = NoErr
    /\ WrittenOn(trace) = {Master}
    /\ nextTx > 1 /\ ~inTx

-----------------------------------------------------------------------------
(* Execute rejects reads. *)

\* the last call was an Execute of a text whose first six characters are
\* "select" in some letter case
SelectExecuted ==
    /\ ret.op = "Execute"
    /\ Len(lastStmt) >= 6
    /\ SubSeq(lastStmt, 1, 6) \in CaseVariants(SELECT)

\* C5: an Execute whose statement text begins with "select", in any letter
\* case of those six characters, fails with the usage error, returns 0
\* rows affected and makes no call on the master connection or on the
\* transaction handle.
C5_SelectRejected ==
    SelectExecuted =>
        /\ ret = Returned("Execute", ErrUsage, 0)
        /\ trace = <<>>
        /\ openStmts = 0

\* a mixed-case select rejected while a transaction is active
C5_Witness ==
    /\ SelectExecuted
    /\ SubSeq(lastStmt, 1, 6) = <<"s","E","l","e","C","t">>
    /\ ret.err = ErrUsage
    /\ tx # 0

-----------------------------------------------------------------------------
(* Execute and the last insert id. *)

\* a step in which Execute returned without an error
WriteSucceeded == ExecuteStep /\ ret'.status = "returned" /\ ret'.err = NoErr

Keyword(stmt) == ToLower(SubSeq(stmt, 1, 6))

\* what result.LastInsertId() answered during the calls
IdsReported(calls) ==
    {calls[i].val : i \in {j \in 1..Len(calls) :
                             calls[j].call = "LastInsertId" /\ calls[j].err = NoErr}}

\* C6 (as claimed): a successful Execute of an "insert" makes LastInsertId()
\* return the identifier generated by that insert; a successful Execute of
\* an "update" or a "delete" leaves it unchanged.
C6_Original ==
    [][WriteSucceeded =>
        /\ Keyword(lastStmt') = INSERT =>
             IdsReported(trace') # {} /\ lastInsertId' \in IdsReported(trace')
        /\ Keyword(lastStmt') \in {UPDATE, DELETE} => lastInsertId' = lastInsertId]_vars

\* C6 (amended): a successful Execute of an "insert" makes LastInsertId()
\* return the identifier generated by that insert when the driver reports
\* one, and leaves the stored value unchanged when the driver fails to
\* report it; a successful Execute of an "update" or a "delete" leaves it
\* unchanged.
C6_LastInsertId ==
    [][WriteSucceeded =>
        /\ Keyword(lastStmt') = INSERT =>
             IF IdsReported(trace') # {}
             THEN IdsReported(trace') = {lastInsertId'}
             ELSE lastInsertId' = lastInsertId
        /\ Keyword(lastStmt') \in {UPDATE, DELETE} =>
             /\ lastInsertId' = lastInsertId
             /\ IdsReported(trace') = {}]_vars

\* an update has succeeded after an insert that generated identifier 2,
\* and LastInsertId() still returns 2
C6_Witness ==
    /\ ret = Returned("Execute", NoErr, 1)
    /\ Keyword(lastStmt) = UPDATE
    /\ lastInsertId = 2

\* an insert that generated identifier 2 has succeeded, and LastInsertId()
\* returns 2
C6_WitnessInsert ==
    /\ ret = Returned("Execute", NoErr, 1)
    /\ Keyword(lastStmt) = INSERT
    /\ IdsReported(trace) = {2}
    /\ lastInsertId = 2

-----------------------------------------------------------------------------
(* Query reads on the slave connection and releases what it opens. *)

\* C4: Query prepares and executes its statement on the slave connection,
\* and makes no call on the transaction handle or on the master connection,
\* also while a transaction is active.
C4_ReadOnSlave ==
    ret.op = "Query" =>
        /\ trace # <<>>
        /\ trace[1].call = "Prepare"
        /\ \A i \in 1..Len(trace) : trace[i].on = Slave

\* a row was read while a transaction was active
C4_Witness ==
    /\ ret = Returned("Query", NoErr, 0)
    /\ tx # 0
    /\ scanned.rows = 1
    /\ \E i \in 1..Len(trace) : trace[i] = Call("Query", "session", Slave, NoErr)

\* call i of the trace opened something that a later call named `close` closes
ClosedLater(i, close) == \E j \in (i + 1)..Len(trace) : trace[j].call = close

\* C7: when Query has ended (returned, with or without an error, or
\* panicked in its scanner), the statement it prepared and the cursor it
\* opened have been closed: nothing it opened is still open.
C7_Released ==
    ret.op = "Query" =>
        /\ openStmts = 0
        /\ openRows = 0
        /\ \A i \in 1..Len(trace) :
            /\ trace[i].call = "Prepare" /\ trace[i].err = NoErr => ClosedLater(i, "StmtClose")
            /\ trace[i].call = "Query" /\ trace[i].err = NoErr => ClosedLater(i, "RowsClose")

\* the scanner failed on a row, and the cursor and the statement were closed
C7_Witness ==
    /\ ret = Returned("Query", "ErrScan", 0)
    /\ trace = <<Call("Prepare", "session", Slave, NoErr),
                 Call("Query", "session", Slave, NoErr),
                 Call("RowsClose", "session", Slave, NoErr),
                 Call("StmtClose", "session", Slave, NoErr)>>

\* stmt.Query failed after a successful Prepare, and the statement was closed
C7_WitnessExecFailure ==
    /\ ret = Returned("Query", "ErrQuery", 0)
    /\ trace[Len(trace)].call = "StmtClose"

-----------------------------------------------------------------------------
(* Binding. *)

\* what a binder holds for its destination
Context(b) ==
    [shape |-> b.BindType, name |-> b.BindName, fields |-> b.BindFields,
     limit |-> b.BindLimit, result |-> b.BindResult.kind, slice |-> b.BindResultSlice]

\* the binder new(Binder) returns, with the maps allocated so far
ZeroBinder ==
    [Binder EXCEPT !.BindOrigin = NilDest, !.BindName = "", !.BindFields = <<>>,
                   !.BindLimit = 0, !.BindResult = Invalid, !.BindResultSlice = "none",
                   !.tmplRecord = ZeroRecord]

\* C8 (as claimed): after a Bind of a destination parseTable accepts, the
\* binding context (shape, table name, field list, row limit, destination
\* handles) is the one a fresh binder gets from that destination: nothing
\* is carried over from earlier binds.
C8_FreshContext ==
    ret.op = "Bind" /\ Recognized(BindOrigin) =>
        Context(Binder) = Context(Bind(ZeroBinder, BindOrigin))

\* C9 (as claimed): after a Bind of a destination parseTable does not
\* accept, the session holds no usable shape, and a following Query scans
\* no row into any destination.
C9_NoShapeAfterFailedBind ==
    /\ ret.op = "Query"
    /\ BindOrigin.kind # "nil"
    /\ ~Recognized(BindOrigin)
    => scanned.rows = 0

\* a step in which a record or a slice of records was bound
RecordBound == ret'.op = "Bind" /\ vars' # vars /\ "struct" \in {BindOrigin'.kind, BindOrigin'.elem}

\* C10 (as claimed): binding a record or a slice of records leaves a field
\* list the caller has set as it is, and fills an empty field list with the
\* record's column names in the order of its fields.
C10_PresetFieldsKept ==
    [][RecordBound =>
        /\ ret.op = "SetBindFields" => BindFields' = BindFields
        /\ BindFields = <<>> => BindFields' = getTagName(BindOrigin'.type)]_vars

-----------------------------------------------------------------------------
(* Reading a single record. *)

\* the last call was a Query whose statement was executed and whose cursor
\* was handed to the scanner of the given shape
ReadUnder(shape) == ret.op = "Query" /\ scanned.shape = shape

\* C11: a Query under the single-record shape whose statement returns no
\* row and whose cursor reports no error returns sql.ErrNoRows; that is
\* neither the error of a cursor that failed nor the error of a row that
\* did not scan, which Query returns as they are.
C11_NotFound ==
    ReadUnder("OBJECT_STRUCT") /\ ret.status = "returned" =>
        /\ scanned.cursor.rows = <<>> /\ scanned.cursor.err = NoErr =>
              ret.err = ErrNoRows
        /\ scanned.cursor.rows = <<>> /\ scanned.cursor.err # NoErr =>
              ret.err = scanned.cursor.err /\ ret.err # ErrNoRows
        /\ scanned.cursor.rows # <<>> => ret.err \in {NoErr, "ErrScan"}

\* a record is bound and the statement returned nothing
C11_Witness ==
    /\ ReadUnder("OBJECT_STRUCT")
    /\ BindOrigin = UserDest
    /\ scanned.cursor = [rows |-> <<>>, err |-> NoErr]
    /\ ret = Returned("Query", ErrNoRows, 0)

\* a record is bound and the cursor failed before its first row
C11_WitnessCursorError ==
    /\ ReadUnder("OBJECT_STRUCT")
    /\ BindOrigin = UserDest
    /\ scanned.cursor = [rows |-> <<>>, err |-> "ErrRows"]
    /\ ret = Returned("Query", "ErrRows", 0)

-----------------------------------------------------------------------------
(* One row for a record. *)

\* rows.Scan stores the row in a record: an integer, then a text or bytes
Scans(row) ==
    ~row.bad /\ row.vals[1].t = "int" /\ row.vals[2].t \in {"text", "bytes"}

\* the record that holds a row
Stored(row) == <<row.vals[1], TextVal(row.vals[2].v)>>

\* C12: a Query bound to a record whose statement returns one row or more
\* advances the cursor once and scans the first row into the record; the
\* row limit of the binding is one; the rows after the first are not
\* advanced to, and no other destination changes.
C12_OneRow ==
    [][/\ ret'.op = "Query" /\ scanned'.shape = "OBJECT_STRUCT"
       /\ BindOrigin = UserDest
       /\ scanned'.cursor.rows # <<>>
       => /\ BindLimit = 1
          /\ scanned'.nexts = 1
          /\ LET row == scanned'.cursor.rows[1] IN
                IF Scans(row)
                THEN dstRecord' = Stored(row) /\ ret' = Returned("Query", NoErr, 0)
                ELSE ret' = Returned("Query", "ErrScan", 0)
          /\ UNCHANGED <<dstRecords, dstMaps, maps>>]_vars

\* the statement returned two rows and the record holds the first
C12_Witness ==
    /\ ReadUnder("OBJECT_STRUCT")
    /\ BindOrigin = UserDest
    /\ Len(scanned.cursor.rows) = 2
    /\ scanned.cursor.rows[1] = Row(<<IntVal(1), BytesVal(1)>>, FALSE)
    /\ scanned.cursor.rows[2] = Row(<<IntVal(2), TextVal(2)>>, FALSE)
    /\ scanned.nexts = 1
    /\ dstRecord = <<IntVal(1), TextVal(1)>>
    /\ ret = Returned("Query", NoErr, 0)

-----------------------------------------------------------------------------
(* A slice of records grows by one element per row. *)

\* C13: a Query bound to a slice of records whose statement returns N rows
\* appends N elements in the order of the rows, element i holding the
\* values of row i; the elements the slice held before stay in front and,
\* like the elements appended earlier in the call, keep their values.
C13_AppendsInOrder ==
    [][/\ ret'.op = "Query" /\ scanned'.shape = "OBJECT_STRUCT_SLICE"
       /\ BindOrigin = OrdersDest
       /\ \A i \in 1..Len(scanned'.cursor.rows) : Scans(scanned'.cursor.rows[i])
       => LET rows == scanned'.cursor.rows IN
          /\ dstRecords' = dstRecords \o [i \in 1..Len(rows) |-> Stored(rows[i])]
          /\ scanned'.nexts = Len(rows)
          /\ ret' = Returned("Query", scanned'.cursor.err, 0)
          /\ UNCHANGED <<dstRecord, dstMaps, maps>>]_vars

\* the slice held a record; two rows with different values were appended
\* behind it, in their order
C13_Witness ==
    /\ ReadUnder("OBJECT_STRUCT_SLICE")
    /\ BindOrigin = OrdersDest
    /\ scanned.cursor.rows = <<Row(<<IntVal(1), BytesVal(1)>>, FALSE),
                               Row(<<IntVal(2), TextVal(2)>>, FALSE)>>
    /\ dstRecords = <<<<IntVal(2), TextVal(2)>>, <<IntVal(1), TextVal(1)>>,
                      <<IntVal(2), TextVal(2)>>>>
    /\ ret = Returned("Query", NoErr, 0)

-----------------------------------------------------------------------------
(* A slice of maps. *)

\* what looking a column up in a map yields: nil for a key it does not have
MapIndex(m, c) == IF m[c] = Absent THEN Null ELSE m[c]

\* rows.Scan has stored every row of the cursor
AllScanned(cursor) == \A i \in 1..Len(cursor.rows) : ~cursor.rows[i].bad

\* C14: a Query bound to a slice of maps whose statement returns N rows
\* appends N maps in the order of the rows, and the i-th of them maps
\* every column to the decoded value of row i; the maps the slice held
\* before stay in front with their contents.
C14_OneMapPerRow ==
    [][/\ ret'.op = "Query" /\ scanned'.shape = "OBJECT_MAP_SLICE"
       /\ BindOrigin = MapsDest
       /\ AllScanned(scanned'.cursor)
       => LET rows == scanned'.cursor.rows
              n == Len(dstMaps)
          IN
          /\ Len(dstMaps') = n + Len(rows)
          /\ \A i \in 1..Len(rows) : \A c \in 1..Len(Columns) :
                MapIndex(maps'[dstMaps'[n + i]], c) = Decoded(rows[i].vals[c])
          /\ \A j \in 1..n :
                dstMaps'[j] = dstMaps[j] /\ maps'[dstMaps[j]] = maps[dstMaps[j]]]_vars

-----------------------------------------------------------------------------
(* A row that does not scan. *)

Shapes == {"OBJECT_STRUCT", "OBJECT_STRUCT_SLICE", "OBJECT_MAP", "OBJECT_MAP_SLICE"}

\* rows.Scan fails on a row: for a record when the cursor is closed or a
\* value does not convert, for a map when the cursor is closed
ScanFails(shape, row) ==
    IF shape \in {"OBJECT_STRUCT", "OBJECT_STRUCT_SLICE"} THEN ~Scans(row) ELSE row.bad

\* row k is the first of the cursor the scanner of the shape reaches and
\* cannot scan
FirstFailure(shape, cursor, k) ==
    /\ k \in 1..Len(cursor.rows)
    /\ shape = "OBJECT_STRUCT" => k = 1
    /\ ScanFails(shape, cursor.rows[k])
    /\ \A i \in 1..(k - 1) : ~ScanFails(shape, cursor.rows[i])

\* the destination of the binding is the one its shape was derived from
BoundTo(shape) ==
    /\ BindType = shape
    /\ BindOrigin = CASE shape = "OBJECT_STRUCT" -> UserDest
                      [] shape = "OBJECT_STRUCT_SLICE" -> OrdersDest
                      [] shape = "OBJECT_MAP" -> MapDest
                      [] shape = "OBJECT_MAP_SLICE" -> MapsDest

\* C15: under every shape, when rows.Scan fails on a row Query returns
\* that error at once: the cursor is not advanced beyond that row, the row
\* adds no element to a slice, and the elements added before it stay.
C15_ScanErrorAborts ==
    [][\A shape \in Shapes : \A k \in 1..MaxRows :
        /\ ret'.op = "Query" /\ scanned'.shape = shape
        /\ BoundTo(shape)
        /\ FirstFailure(shape, scanned'.cursor, k)
        => /\ ret' = Returned("Query", "ErrScan", 0)
           /\ scanned'.nexts = k
           /\ Len(dstRecords') =
                Len(dstRecords) + (IF shape = "OBJECT_STRUCT_SLICE" THEN k - 1 ELSE 0)
           /\ Len(dstMaps') =
                Len(dstMaps) + (IF shape = "OBJECT_MAP_SLICE" THEN k - 1 ELSE 0)
           /\ \A j \in 1..Len(dstRecords) : dstRecords'[j] = dstRecords[j]
           /\ \A j \in 1..Len(dstMaps) : dstMaps'[j] = dstMaps[j]]_vars

-----------------------------------------------------------------------------
(* The last statement and the statement log. *)

IsPrefix(p, q) == Len(p) <= Len(q) /\ \A i \in 1..Len(p) : p[i] = q[i]

\* C16: every Query and every Execute, whether it then succeeds, fails, is
\* rejected or panics, makes the formatted text of its statement the last
\* statement and appends that text once to the statement log when the
\* query log is on, and leaves the log as it is when it is off; no step
\* removes, changes or reorders an entry of the log.
C16_StatementLog ==
    [][/\ IsPrefix(sqlLogs, sqlLogs')
       /\ ret'.op \in {"Query", "Execute"} =>
            /\ \E args \in ArgLists : lastSql' = Sprintf(lastStmt', args)
            /\ sqlLogs' = IF enableQueryLog THEN Append(sqlLogs, lastSql') ELSE sqlLogs]_vars

\* with the log on, a rejected select was logged behind an earlier entry
C16_Witness ==
    /\ enableQueryLog
    /\ ret = Returned("Execute", ErrUsage, 0)
    /\ Len(sqlLogs) = 2
    /\ sqlLogs[2] = lastSql
    /\ lastSql = <<"S","e","l","e","c","T"," ","7">>

\* with the log off, a read that failed is the last statement and the log
\* is empty
C16_WitnessOff ==
    /\ ~enableQueryLog
    /\ ret = Returned("Query", "ErrPrepare", 0)
    /\ lastSql = <<"s","e","l","e","c","t"," ","7">>
    /\ sqlLogs = <<>>

-----------------------------------------------------------------------------
(* Reading without a shape. *)

\* C17: a Query whose statement was executed while the binder's shape is
\* none of record, slice of records, map and slice of maps returns the
\* error "Bind value error"; it advances the cursor to no row and changes
\* no destination.
C17_BindValueError ==
    [][/\ ret'.op = "Query"
       /\ scanned'.shape = BindType
       /\ BindType \notin Shapes
       => /\ ret' = Returned("Query", "Bind value error", 0)
          /\ scanned'.nexts = 0
          /\ UNCHANGED <<dstRecord, tmplRecord, dstRecords, dstMaps, maps>>]_vars

\* a table name was bound after a record, and a statement that returns a
\* row was read
C17_Witness ==
    /\ BindOrigin = TableDest
    /\ BindResult.kind = "struct"
    /\ scanned.shape = "OBJECT_STRING"
    /\ Len(scanned.cursor.rows) = 1
    /\ ret = Returned("Query", "Bind value error", 0)

-----------------------------------------------------------------------------
(* What a map holds for a column. *)

\* the text with the bytes of a raw value; any other value as it is
AsText(val) == IF val.t = "bytes" THEN [t |-> "text", v |-> val.v] ELSE val

\* the last call was a Query under a map shape, bound to its destination,
\* whose rows were all scanned, and there was one at least
MapRead ==
    /\ ret.op = "Query"
    /\ scanned.shape \in {"OBJECT_MAP", "OBJECT_MAP_SLICE"}
    /\ BoundTo(scanned.shape)
    /\ AllScanned(scanned.cursor)
    /\ scanned.cursor.rows # <<>>

LastRow == scanned.cursor.rows[Len(scanned.cursor.rows)]

\* C18: under the map shapes the map holds, for every column of the row
\* scanned last, the text of a value that came as raw bytes and the value
\* itself when it came as anything else.
C18_StoredUnchanged ==
    MapRead =>
        \A c \in 1..Len(Columns) : maps[BindResult.ref][c] = AsText(LastRow.vals[c])

\* what does hold: a value that is not NULL is held as C18 says, and the
\* column of a NULL is a key the map does not have
TypedValuesStored ==
    MapRead =>
        \A c \in 1..Len(Columns) :
            maps[BindResult.ref][c] =
                IF LastRow.vals[c] = Null THEN Absent ELSE AsText(LastRow.vals[c])

-----------------------------------------------------------------------------
(* Several rows for one map. *)

\* C19: a Query bound to a map whose statement returns several rows leaves
\* in the map, for every column, the value of the last row; every row is
\* read, and nothing is appended to a slice.
C19_LastRowWins ==
    [][/\ ret'.op = "Query" /\ scanned'.shape = "OBJECT_MAP"
       /\ BoundTo("OBJECT_MAP")
       /\ AllScanned(scanned'.cursor)
       /\ scanned'.cursor.rows # <<>>
       => LET rows == scanned'.cursor.rows IN
          /\ \A c \in 1..Len(Columns) :
                MapIndex(maps'[0], c) = AsText(rows[Len(rows)].vals[c])
          /\ scanned'.nexts = Len(rows)
          /\ UNCHANGED <<dstMaps, dstRecords, dstRecord>>]_vars

\* the statement returned two rows with different values, the second
\* with raw bytes, and the map holds the second, its bytes as a text
C19_Witness ==
    /\ ReadUnder("OBJECT_MAP")
    /\ BoundTo("OBJECT_MAP")
    /\ scanned.cursor.rows = <<Row(<<IntVal(2), TextVal(2)>>, FALSE),
                               Row(<<IntVal(1), BytesVal(1)>>, FALSE)>>
    /\ maps[0] = <<IntVal(1), TextVal(1)>>
    /\ dstMaps = <<>>

-----------------------------------------------------------------------------
(* Transaction and the handle. *)

\* the calls of Commit and Rollback that Transaction itself has made
OwnEndings ==
    {i \in 1..Len(trace) : trace[i].by = "txn" /\ trace[i].call \in {"Commit", "Rollback"}}

\* C20: Transaction calls Commit and Rollback only on a transaction handle
\* that is present, and the session has no handle when Transaction has
\* returned; when its Begin fails it returns Begin's error, having invoked
\* no closer and called neither Commit nor Rollback.  This holds whatever
\* the closers do with the session, calls of Begin, Commit and Rollback
\* included.
C20_HandlePresent ==
    ret.op = "Transaction" =>
        /\ \A i \in OwnEndings : trace[i].on # TxConn(0)
        /\ ret.status = "returned" => tx = 0
        /\ trace[1].err # NoErr =>
              trace = <<Call("Begin", "txn", Master, "ErrBegin")>>
              /\ ret = Returned("Transaction", "ErrBegin", 0)

=============================================================================
